---- MODULE Spec2Model ----
(***************************************************************************)
(* Model of ironic_inspector/rules.py: the introspection-rule repository   *)
(* operations (create, get, get_all, delete, delete_all) and the rule      *)
(* engine (apply, IntrospectionRule.filter_by_conditions,                  *)
(* IntrospectionRule.apply_actions), field addresses (SourceData) and the  *)
(* lazily built schemas (conditions_schema, actions_schema).               *)
(*                                                                         *)
(* Python semantics kept by the model:                                     *)
(*  - a name that is read but bound neither in the function nor at module  *)
(*    level raises NameError; a function-local name read before its first  *)
(*    assignment raises UnboundLocalError (Lookup below);                  *)
(*  - an exception that no enclosing try/except names propagates to the    *)
(*    caller and ends the call.                                            *)
(* The dictionary literal at rules.py:107-111 lacks the comma after its    *)
(* 'node' entry; the model reads it as the three-entry dictionary it       *)
(* spells (data, node, port), since without it no function of the module   *)
(* exists at all.                                                          *)
(***************************************************************************)
EXTENDS Integers, Sequences, FiniteSets, TLC

VARIABLES
    rulesTab,   \* db.Rule rows, in created_at order
    condsTab,   \* db.RuleCondition rows, in insertion (id) order
    actsTab,    \* db.RuleAction rows, in insertion (id) order
    submitted,  \* history: uuid -> the arguments of the create call that stored it
    last,       \* the most recent public call: its arguments and its outcome
    _CONDITIONS_SCHEMA,  \* module global (line 32): <<>> is None, else <<schema>>
    _ACTIONS_SCHEMA,     \* module global (line 33): <<>> is None, else <<schema>>
    callers     \* the concurrent callers of the schema functions: where each is

vars ==
    <<rulesTab, condsTab, actsTab, submitted, last, _CONDITIONS_SCHEMA,
      _ACTIONS_SCHEMA, callers>>

schemaVars == <<_CONDITIONS_SCHEMA, _ACTIONS_SCHEMA, callers>>

\* Python's None.
None == "None"

(***************************************************************************)
(* Bounds and input sets                                                   *)
(***************************************************************************)
\* Largest number of ports of the node in a context.
MaxPorts == 2

\* Number of rule identifiers in use, hence the most rules ever stored.
MaxRules == 2

\* Identifiers a caller may supply (or uuidutils.generate_uuid may return).
\* Concurrent callers (threads) of conditions_schema / actions_schema.
NumCallers == 2
Callers == 1..NumCallers

UuidPool == <<"u1", "u2", "u3">>
Uuids == {UuidPool[i] : i \in 1..MaxRules}

\* Introspection data documents: mapping key -> value.
DataBob == [k \in {"name"} |-> "bob"]
DataAl == [k \in {"name"} |-> "al"]
DataEmpty == [k \in {} |-> ""]
DataInputs == <<DataBob, DataAl, DataEmpty>>

\* Port addresses.
Macs == {"m1", "m2"}

RECURSIVE SeqsUpTo(_, _)
SeqsUpTo(S, n) ==
    IF n = 0 THEN {<<>>}
    ELSE LET shorter == SeqsUpTo(S, n - 1)
         IN  shorter \cup {Append(s, x) : s \in shorter, x \in S}

\* The contexts (node_info, data) a call is given: a node with up to MaxPorts
\* ports (each serialised port is its address), with one of the data documents.
Contexts ==
    {[node_info |-> [node |-> [k \in {"name"} |-> "n1"], ports |-> ports],
      data |-> DataInputs[(Len(ports) % Len(DataInputs)) + 1]] :
        ports \in SeqsUpTo(Macs, MaxPorts)}

(***************************************************************************)
(* Rule documents submitted to create: JSON objects as functions from key  *)
(* to value.  Every 'field' is a string and every 'invert' a boolean, so   *)
(* the two "type" keywords of the conditions schema are met by every       *)
(* input; the other schema keywords are decided by ConditionsSchemaOK.     *)
(***************************************************************************)
cEq == ("op" :> "eq") @@ ("field" :> "name") @@ ("value" :> "bob")
cEmptyInv ==
    ("op" :> "is-empty") @@ ("field" :> "serial") @@ ("multiple" :> "all")
        @@ ("invert" :> TRUE)
cPortM1 ==
    ("op" :> "eq") @@ ("field" :> "port://address") @@ ("value" :> "m1")
        @@ ("multiple" :> "any")
cPortNotM2 ==
    ("op" :> "eq") @@ ("field" :> "port://address") @@ ("value" :> "m2")
        @@ ("multiple" :> "all") @@ ("invert" :> TRUE)
cBogus == ("op" :> "eq") @@ ("field" :> "x://a") @@ ("value" :> "bob")
cNoField == ("op" :> "eq") @@ ("value" :> "bob")
cBadOp == ("op" :> "nope") @@ ("field" :> "name")
cNoValue == ("op" :> "eq") @@ ("field" :> "name")
cBadMultiple ==
    ("op" :> "eq") @@ ("field" :> "name") @@ ("value" :> "bob")
        @@ ("multiple" :> "some")

Template == "hi {data[name]}"
aSetLit == ("action" :> "set-attribute") @@ ("path" :> "/p") @@ ("value" :> "x")
aSetTmpl ==
    ("action" :> "set-attribute") @@ ("path" :> "/q") @@ ("value" :> Template)
aCapLit ==
    ("action" :> "set-capability") @@ ("name" :> "c") @@ ("value" :> "y")
aNoValue == ("action" :> "set-attribute") @@ ("path" :> "/p")
aUnknown == ("action" :> "nope")
aNoAction == ("value" :> "x")

\* The (conditions_json, actions_json, description) submitted to create: the
\* valid ones, then one for each way a submission can be rejected.
RuleInputs ==
    << <<<<>>, <<aCapLit>>, "d">>,
       <<<<>>, <<aSetLit, aSetTmpl, aCapLit>>, None>>,
       <<<<cEq, cEmptyInv>>, <<aSetLit, aSetTmpl, aCapLit>>, None>>,
       <<<<cPortM1, cPortNotM2>>, <<aCapLit>>, "d">>,
       <<<<cBogus>>, <<aCapLit>>, None>>,
       <<<<cEq, cNoField>>, <<aCapLit>>, "d">>,
       <<<<cEq, cBadOp>>, <<aCapLit>>, None>>,
       <<<<cEq, cNoValue>>, <<aCapLit>>, "d">>,
       <<<<cBadMultiple>>, <<aCapLit>>, None>>,
       <<<<cEq, cEmptyInv>>, <<>>, "d">>,
       <<<<cEq, cEmptyInv>>, <<aSetLit, aNoValue>>, None>>,
       <<<<cEq, cEmptyInv>>, <<aSetLit, aUnknown>>, "d">>,
       <<<<cEq, cEmptyInv>>, <<aNoAction>>, None>> >>

\* dict.get(key, default)
DictGet(d, key, default) == IF key \in DOMAIN d THEN d[key] ELSE default

\* {k: v for k, v in d.items() if k not in keys}
Without(d, keys) == [k \in DOMAIN d \ keys |-> d[k]]

(***************************************************************************)
(* The operator registry (ironic_inspector.plugins): names, the parameters *)
(* each operator's validate requires, ALLOW_NONE, FORMATTED_PARAMS, check. *)
(***************************************************************************)
condition_plugins == {"eq", "is-empty"}
action_plugins == {"set-attribute", "set-capability"}

CondRequiredParams(op) == IF op = "eq" THEN {"value"} ELSE {}
ActRequiredParams(action) ==
    IF action = "set-attribute" THEN {"path", "value"} ELSE {"name", "value"}

\* plugin.validate(params): raises ValueError when a required parameter is missing
PluginValidateOK(required, params) == required \subseteq DOMAIN params

ALLOW_NONE(op) == op = "is-empty"
FORMATTED_PARAMS(action) == <<"value">>

\* cond_ext.check(node_info, value, params)
PluginCheck(op, value, params) ==
    IF op = "eq" THEN value = params["value"] ELSE value \in {None, ""}

(***************************************************************************)
(* conditions_schema() / actions_schema() and jsonschema.validate          *)
(***************************************************************************)
\* The value None of a schema global, and the test of line 38 / line 78.
Unset == <<>>

\* The dict built at lines 41-72, given the names of the registered plugins.
ConditionsSchemaDoc(names) ==
    [title |-> "Inspector rule conditions schema",
     type |-> "array",
     minItems |-> 0,
     items |->
         [type |-> "object",
          required |-> <<"op", "field">>,
          properties |->
              [op |-> [enum |-> names],
               field |-> [type |-> "string"],
               multiple |-> [enum |-> <<"all", "any", "first">>],
               invert |-> [type |-> "boolean"]],
          additionalProperties |-> TRUE]]

\* The dict built at lines 81-97.
ActionsSchemaDoc(names) ==
    [title |-> "Inspector rule actions schema",
     type |-> "array",
     minItems |-> 1,
     items |->
         [type |-> "object",
          required |-> <<"action">>,
          properties |-> [action |-> [enum |-> names]],
          additionalProperties |-> TRUE]]

SchemaFunctions == {"conditions_schema", "actions_schema"}

\* Lines 39-72 / 79-97: the plugin names read from the registry and the dict
\* built from them, before it is stored in the global.
BuildSchema(fn) ==
    IF fn = "conditions_schema" THEN ConditionsSchemaDoc(condition_plugins)
    ELSE ActionsSchemaDoc(action_plugins)

\* TestBranch for a function without the test: it never builds.
TestBranchNeverBuilding(cache) == "return"

\* Line 38 / line 78: where the function goes on the value read from the global.
TestBranch(cache) == IF cache = Unset THEN "build" ELSE "return"

\* conditions_schema() / actions_schema() run without interruption: the value
\* the global holds afterwards, which is the value returned.
SchemaCall(fn, cache) ==
    IF TestBranch(cache) = "build" THEN <<BuildSchema(fn)>> ELSE cache

conditions_schema == SchemaCall("conditions_schema", _CONDITIONS_SCHEMA)
actions_schema == SchemaCall("actions_schema", _ACTIONS_SCHEMA)

ConditionsSchemaOK(conditions_json) ==
    \A i \in 1..Len(conditions_json) :
        LET item == conditions_json[i] IN
        /\ {"op", "field"} \subseteq DOMAIN item
        /\ item["op"] \in condition_plugins
        /\ "multiple" \in DOMAIN item => item["multiple"] \in {"all", "any", "first"}

ActionsSchemaOK(actions_json) ==
    /\ Len(actions_json) >= 1
    /\ \A i \in 1..Len(actions_json) :
           LET item == actions_json[i] IN
           /\ "action" \in DOMAIN item
           /\ item["action"] \in action_plugins

(***************************************************************************)
(* Exceptions.  utils.Error carries an HTTP code; "default" is the code    *)
(* utils.Error gives when the raise names none.                            *)
(***************************************************************************)
NoExc == "none"
ErrorDefault == "utils.Error(default)"
Error409 == "utils.Error(409)"
Error404 == "utils.Error(404)"

(***************************************************************************)
(* The database (ironic_inspector.db): three tables; db.ensure_transaction *)
(* commits the block's writes together or, on an exception, none of them.  *)
(***************************************************************************)
StoredUuids == {rulesTab[i].uuid : i \in 1..Len(rulesTab)}

\* rule.conditions / rule.actions of the db.Rule row with this uuid
RuleConditions(uuid) == SelectSeq(condsTab, LAMBDA row : row.rule = uuid)
RuleActions(uuid) == SelectSeq(actsTab, LAMBDA row : row.rule = uuid)

RuleRow(uuid) ==
    LET i == CHOOSE j \in 1..Len(rulesTab) : rulesTab[j].uuid = uuid
    IN  rulesTab[i]

\* IntrospectionRule.__init__
IntrospectionRule(uuid, conditions, actions, description) ==
    [uuid |-> uuid, conditions |-> conditions, actions |-> actions,
     description |-> description]

\* IntrospectionRule.as_dict(short=False), each row given by its columns
as_dict(self) ==
    [uuid |-> self.uuid, description |-> self.description,
     conditions |-> self.conditions, actions |-> self.actions]

\* IntrospectionRule.description (property)
description(self) ==
    IF self.description \in {None, ""} THEN self.uuid ELSE self.description

\* The outcome of a repository call: the exception raised (or NoExc), the value
\* returned and the tables it leaves.
Outcome(exc, ret, rules, conds, acts) ==
    [exc |-> exc, ret |-> ret, rules |-> rules, conds |-> conds, acts |-> acts]

Unchanged(exc) == Outcome(exc, None, rulesTab, condsTab, actsTab)

\* plugin.validate raised ValueError / the rows validated so far
Rejected == [ok |-> FALSE, rows |-> <<>>]
Validated(rows) == [ok |-> TRUE, rows |-> rows]

\* ValidateConditions with the invert flag of the document dropped.
RECURSIVE ValidateConditionsDroppingInvert(_, _, _)
ValidateConditionsDroppingInvert(conditions_json, i, conditions) ==
    IF i > Len(conditions_json) THEN Validated(conditions)
    ELSE LET cond_json == conditions_json[i]
             params == Without(cond_json, {"op", "field", "multiple", "invert"})
         IN  IF ~PluginValidateOK(CondRequiredParams(cond_json["op"]), params)
             THEN Rejected
             ELSE ValidateConditionsDroppingInvert(conditions_json, i + 1,
                      Append(conditions,
                             [field |-> cond_json["field"],
                              op |-> cond_json["op"],
                              multiple |-> DictGet(cond_json, "multiple", "any"),
                              invert |-> FALSE,
                              params |-> params]))

\* create, lines 298-317: the validated conditions, or Rejected
RECURSIVE ValidateConditions(_, _, _)
ValidateConditions(conditions_json, i, conditions) ==
    IF i > Len(conditions_json) THEN Validated(conditions)
    ELSE LET cond_json == conditions_json[i]
             params == Without(cond_json, {"op", "field", "multiple", "invert"})
         IN  IF ~PluginValidateOK(CondRequiredParams(cond_json["op"]), params)
             THEN Rejected
             ELSE ValidateConditions(conditions_json, i + 1,
                      Append(conditions,
                             [field |-> cond_json["field"],
                              op |-> cond_json["op"],
                              multiple |-> DictGet(cond_json, "multiple", "any"),
                              invert |-> DictGet(cond_json, "invert", FALSE),
                              params |-> params]))

\* create, lines 319-330: the validated actions, or Rejected
RECURSIVE ValidateActions(_, _, _)
ValidateActions(actions_json, i, actions) ==
    IF i > Len(actions_json) THEN Validated(actions)
    ELSE LET action_json == actions_json[i]
             params == Without(action_json, {"action"})
         IN  IF ~PluginValidateOK(ActRequiredParams(action_json["action"]), params)
             THEN Rejected
             ELSE ValidateActions(actions_json, i + 1,
                      Append(actions,
                             [action |-> action_json["action"], params |-> params]))

\* SaveRule without the unique constraint on the rule's uuid.
SaveRuleIgnoringDuplicate(uuid, descr, conditions, actions) ==
    LET condRows == [i \in 1..Len(conditions) |->
                        [rule |-> uuid, op |-> conditions[i].op,
                         field |-> conditions[i].field,
                         multiple |-> conditions[i].multiple,
                         invert |-> conditions[i].invert,
                         params |-> conditions[i].params]]
        actRows == [i \in 1..Len(actions) |->
                       [rule |-> uuid, action |-> actions[i].action,
                        params |-> actions[i].params]]
    IN  Outcome(NoExc,
                IntrospectionRule(uuid, condRows, actRows, descr),
                Append(rulesTab, [uuid |-> uuid, description |-> descr]),
                condsTab \o condRows, actsTab \o actRows)

\* create, lines 332-348: the transaction that stores the rule with its rows
SaveRule(uuid, descr, conditions, actions) ==
    IF uuid \in StoredUuids
    THEN Unchanged(Error409)
    ELSE LET condRows == [i \in 1..Len(conditions) |->
                             [rule |-> uuid, op |-> conditions[i].op,
                              field |-> conditions[i].field,
                              multiple |-> conditions[i].multiple,
                              invert |-> conditions[i].invert,
                              params |-> conditions[i].params]]
             actRows == [i \in 1..Len(actions) |->
                            [rule |-> uuid, action |-> actions[i].action,
                             params |-> actions[i].params]]
         IN  Outcome(NoExc,
                     IntrospectionRule(uuid, condRows, actRows, descr),
                     Append(rulesTab, [uuid |-> uuid, description |-> descr]),
                     condsTab \o condRows, actsTab \o actRows)

\* create with the rule and its conditions saved before the actions are
\* validated.
CreateSavingEarly(conditions_json, actions_json, uuid_arg, descr, generated) ==
    LET uuid == IF uuid_arg = None THEN generated ELSE uuid_arg IN
    IF ~ConditionsSchemaOK(conditions_json) THEN Unchanged(ErrorDefault)
    ELSE IF ~ActionsSchemaOK(actions_json) THEN Unchanged(ErrorDefault)
    ELSE LET conditions == ValidateConditions(conditions_json, 1, <<>>) IN
         IF ~conditions.ok THEN Unchanged(ErrorDefault)
         ELSE LET actions == ValidateActions(actions_json, 1, <<>>)
                  saved == SaveRule(uuid, descr, conditions.rows, actions.rows)
              IN  IF ~actions.ok
                  THEN Outcome(IF saved.exc = NoExc THEN ErrorDefault ELSE saved.exc,
                               None, saved.rules, saved.conds, saved.acts)
                  ELSE saved

\* create(conditions_json, actions_json, uuid, description); generated is the
\* value uuidutils.generate_uuid() returns when the caller gives no uuid.
create(conditions_json, actions_json, uuid_arg, descr, generated) ==
    LET uuid == IF uuid_arg = None THEN generated ELSE uuid_arg IN
    IF ~ConditionsSchemaOK(conditions_json) THEN Unchanged(ErrorDefault)
    ELSE IF ~ActionsSchemaOK(actions_json) THEN Unchanged(ErrorDefault)
    ELSE LET conditions == ValidateConditions(conditions_json, 1, <<>>) IN
         IF ~conditions.ok THEN Unchanged(ErrorDefault)
         ELSE LET actions == ValidateActions(actions_json, 1, <<>>) IN
              IF ~actions.ok THEN Unchanged(ErrorDefault)
              ELSE SaveRule(uuid, descr, conditions.rows, actions.rows)

\* get(uuid)
get(uuid) ==
    IF uuid \notin StoredUuids THEN Unchanged(Error404)
    ELSE Outcome(NoExc,
                 IntrospectionRule(uuid, RuleConditions(uuid), RuleActions(uuid),
                                   RuleRow(uuid).description),
                 rulesTab, condsTab, actsTab)

\* get_all(): every rule, ordered by created_at
get_all ==
    [i \in 1..Len(rulesTab) |->
        IntrospectionRule(rulesTab[i].uuid, RuleConditions(rulesTab[i].uuid),
                          RuleActions(rulesTab[i].uuid), rulesTab[i].description)]

\* delete without the delete of the rule's condition rows.
DeleteLeavingConditions(uuid) ==
    LET acts == SelectSeq(actsTab, LAMBDA row : row.rule # uuid)
        rules == SelectSeq(rulesTab, LAMBDA row : row.uuid # uuid)
        count == Len(rulesTab) - Len(rules)
    IN  IF count = 0 THEN Unchanged(Error404)
        ELSE Outcome(NoExc, None, rules, condsTab, acts)

\* delete with the action rows deleted without the filter on the rule.
DeleteEveryAction(uuid) ==
    LET conds == SelectSeq(condsTab, LAMBDA row : row.rule # uuid)
        rules == SelectSeq(rulesTab, LAMBDA row : row.uuid # uuid)
        count == Len(rulesTab) - Len(rules)
    IN  IF count = 0 THEN Unchanged(Error404)
        ELSE Outcome(NoExc, None, rules, conds, <<>>)

\* delete(uuid): the three deletes, rolled back when no rule row was deleted
delete(uuid) ==
    LET acts == SelectSeq(actsTab, LAMBDA row : row.rule # uuid)
        conds == SelectSeq(condsTab, LAMBDA row : row.rule # uuid)
        rules == SelectSeq(rulesTab, LAMBDA row : row.uuid # uuid)
        count == Len(rulesTab) - Len(rules)
    IN  IF count = 0 THEN Unchanged(Error404)
        ELSE Outcome(NoExc, None, rules, conds, acts)

\* delete_all()
delete_all == Outcome(NoExc, None, <<>>, <<>>, <<>>)

(***************************************************************************)
(* Name resolution.  ModuleNames are the names bound at module level       *)
(* (imports, lines 17-33, and the module's defs and classes).              *)
(***************************************************************************)
ModuleNames ==
    {"jsonpath", "jsonschema", "db_exc", "timeutils", "uuidutils", "six", "orm",
     "_", "db", "plugins_base", "utils", "LOG", "_CONDITIONS_SCHEMA",
     "_ACTIONS_SCHEMA", "conditions_schema", "actions_schema", "SourceData",
     "IntrospectionRule", "create", "get", "get_all", "delete", "delete_all",
     "apply"}

\* Reading one name inside a function whose local names are locals, of which
\* bound have been assigned so far.
Lookup(name, locals, bound) ==
    IF name \in locals
    THEN IF name \in bound THEN "ok" ELSE "UnboundLocalError"
    ELSE IF name \in ModuleNames THEN "ok" ELSE "NameError"

\* The first exception raised by reading the names in order, or "ok".
RECURSIVE FirstRaise(_, _, _)
FirstRaise(names, locals, bound) ==
    IF names = <<>> THEN "ok"
    ELSE LET r == Lookup(Head(names), locals, bound)
         IN  IF r # "ok" THEN r ELSE FirstRaise(Tail(names), locals, bound)

\* The outcome of an engine call: the exception raised (or NoExc), the value
\* returned, the condition-operator checks and the action-operator invocations
\* made (in order), the number of rules whose filter_by_conditions returned,
\* and the rule's actions afterwards.
EngineOutcome(exc, ret, checks, invoked, evaluated, actions) ==
    [exc |-> exc, ret |-> ret, checks |-> checks, invoked |-> invoked,
     evaluated |-> evaluated, actions |-> actions]

(***************************************************************************)
(* SourceData: a field address (uri) is a string, modelled as the sequence *)
(* of its characters; positions are 1-based where Python's are 0-based.    *)
(***************************************************************************)
uriName == <<"n", "a", "m", "e">>
uriNode == <<"n", "o", "d", "e", ":", "/", "/", "n", "a", "m", "e">>
uriPort == <<"p", "o", "r", "t", ":", "/", "/", "m", "a", "c">>
uriTwice == <<"d", "a", "t", "a", ":", "/", "/", "a", ":", "/", "/", "b">>
uriBogus == <<"x", ":", "/", "/", "a">>
uriBracket == <<"[">>
UriInputs == <<uriName, uriNode, uriPort, uriTwice, uriBogus, uriBracket>>

_DEFAULT_SCHEME == <<"d", "a", "t", "a">>
_URI_SEPARATOR == <<":", "/", "/">>

\* str.index(sub): the first position at which sub occurs; 0 stands for the
\* ValueError raised when there is none.
Index(str, sub) ==
    LET hits == {i \in 1..(Len(str) - Len(sub) + 1) :
                    SubSeq(str, i, i + Len(sub) - 1) = sub}
    IN  IF hits = {} THEN 0
        ELSE CHOOSE i \in hits : \A j \in hits : i <= j

ParseUriLocals == {"cls", "uri", "index", "scheme", "path"}

\* SourceData._parse_uri(uri).  In the else branch line 147 reads path, a
\* local that only the except branch and line 148 assign.
_parse_uri(uri) ==
    LET index == Index(uri, _URI_SEPARATOR) IN
    IF index = 0
    THEN [exc |-> NoExc, ret |-> <<_DEFAULT_SCHEME, uri>>]
    ELSE [exc |-> FirstRaise(<<"path", "index">>, ParseUriLocals,
                             {"cls", "uri", "index"}),
          ret |-> None]

\* jsonpath.parse(path) of the jsonpath_rw library, for the paths the model
\* submits: a field name parses, a lone bracket does not.
JsonPathParses(path) == path # <<>> /\ \A i \in 1..Len(path) : path[i] # "["

\* node_info.node().to_dict() / [p.to_dict() for p in node_info.ports()]
NodeDict(node_info) == node_info.node
PortDicts(node_info) ==
    [i \in 1..Len(node_info.ports) |-> [address |-> node_info.ports[i]]]

\* SourceData.__init__(node_info, intr_data, uri): the data source selected
\* (self._data) and the path handed to jsonpath.parse.
SourceData(node_info, intr_data, uri) ==
    LET parsed == _parse_uri(uri) IN
    IF parsed.exc # NoExc THEN [exc |-> parsed.exc, ret |-> None]
    ELSE LET scheme == parsed.ret[1]
             path == parsed.ret[2]
         IN  IF scheme \notin {<<"d", "a", "t", "a">>, <<"n", "o", "d", "e">>,
                               <<"p", "o", "r", "t">>}
             THEN [exc |-> ErrorDefault, ret |-> None]
             ELSE IF ~JsonPathParses(path)
                  THEN [exc |-> ErrorDefault, ret |-> None]
                  ELSE [exc |-> NoExc,
                        ret |-> [_data |->
                                    IF scheme = <<"d", "a", "t", "a">>
                                    THEN <<intr_data>>
                                    ELSE IF scheme = <<"n", "o", "d", "e">>
                                         THEN <<NodeDict(node_info)>>
                                         ELSE PortDicts(node_info),
                                 path |-> path]]

(***************************************************************************)
(* IntrospectionRule.filter_by_conditions(self, node_info, values)         *)
(***************************************************************************)
\* The names the function binds: its parameters and its assignment targets.
FbcParams == {"self", "node_info", "values"}
FbcLocals ==
    FbcParams \cup {"ext_mgr", "cond", "source_data", "field_values", "value",
                    "result"}

\* The names read by the statements on the way to the first operator check.
FbcReads185 == <<"LOG", "self", "node_info", "data">>
FbcReads190 == <<"SourceData", "node_info", "data", "cond">>
FbcReads191 == <<"field_values">>
FbcReads222 == <<"LOG", "self", "node_info", "data">>

\* Lines 192-220 (ALLOW_NONE, the loop over the values, the failed-condition
\* return) cannot execute: line 191 reads field_values, which no earlier
\* statement assigns, and every path to it passes lines 185 and 190, which read
\* data, a name that is neither a parameter (the parameter is values) nor a
\* module-level name.
filter_by_conditions(self, node_info, values) ==
    LET e185 == FirstRaise(FbcReads185, FbcLocals, FbcParams) IN
    IF e185 # "ok" THEN EngineOutcome(e185, None, <<>>, <<>>, 0, self.actions)
    ELSE IF Len(self.conditions) = 0
         THEN LET e222 == FirstRaise(FbcReads222, FbcLocals,
                                     FbcParams \cup {"ext_mgr"})
              IN  IF e222 # "ok"
                  THEN EngineOutcome(e222, None, <<>>, <<>>, 0, self.actions)
                  ELSE EngineOutcome(NoExc, TRUE, <<>>, <<>>, 0, self.actions)
         ELSE LET e190 == FirstRaise(FbcReads190, FbcLocals,
                                     FbcParams \cup {"ext_mgr", "cond"})
                  e191 == FirstRaise(FbcReads191, FbcLocals,
                              FbcParams \cup {"ext_mgr", "cond", "source_data"})
              IN  EngineOutcome(IF e190 # "ok" THEN e190 ELSE e191,
                                None, <<>>, <<>>, 0, self.actions)

(***************************************************************************)
(* IntrospectionRule.apply_actions(self, node_info, data)                  *)
(***************************************************************************)
\* value.format(data=data) for the values the model submits: a value without a
\* replacement field is returned as it is; Template reads data['name'].
Substituted(name) == IF name = "bob" THEN "hi bob" ELSE "hi al"
Format(value, data) ==
    IF value # Template THEN value
    ELSE IF "name" \in DOMAIN data THEN Substituted(data["name"]) ELSE "KeyError"

\* Lines 239-252 for one action: its params after the substitutions, or the
\* utils.Error raised for a KeyError.
RECURSIVE FormatParams(_, _, _, _)
FormatParams(params, formatted, j, data) ==
    IF j > Len(formatted) THEN [exc |-> NoExc, params |-> params]
    ELSE LET value == DictGet(params, formatted[j], None) IN
         IF value \in {None, ""}
         THEN FormatParams(params, formatted, j + 1, data)
         ELSE IF Format(value, data) = "KeyError"
              THEN [exc |-> ErrorDefault, params |-> params]
              ELSE FormatParams([params EXCEPT ![formatted[j]] = Format(value, data)],
                                formatted, j + 1, data)

\* RunActions with the operator applied before the parameters are formatted.
RECURSIVE RunActionsApplyingFirst(_, _, _, _, _)
RunActionsApplyingFirst(actions, i, node_info, data, invoked) ==
    IF i > Len(actions) THEN EngineOutcome(NoExc, None, <<>>, invoked, 0, actions)
    ELSE LET act == actions[i]
             f == FormatParams(act.params, FORMATTED_PARAMS(act.action), 1, data)
             after == [actions EXCEPT ![i].params = f.params]
             applied == Append(invoked, [action |-> act.action, target |-> "node",
                                         params |-> act.params])
         IN  IF f.exc # NoExc THEN EngineOutcome(f.exc, None, <<>>, applied, 0, after)
             ELSE RunActionsApplyingFirst(after, i + 1, node_info, data, applied)

\* Lines 236-257: the loop over self._actions from the i-th action on.
RECURSIVE RunActions(_, _, _, _, _)
RunActions(actions, i, node_info, data, invoked) ==
    IF i > Len(actions) THEN EngineOutcome(NoExc, None, <<>>, invoked, 0, actions)
    ELSE LET act == actions[i]
             f == FormatParams(act.params, FORMATTED_PARAMS(act.action), 1, data)
             after == [actions EXCEPT ![i].params = f.params]
         IN  IF f.exc # NoExc THEN EngineOutcome(f.exc, None, <<>>, invoked, 0, after)
             ELSE RunActions(after, i + 1, node_info, data,
                             Append(invoked, [action |-> act.action,
                                              target |-> "node",
                                              params |-> f.params]))

apply_actions(self, node_info, data) ==
    RunActions(self.actions, 1, node_info, data, <<>>)

(***************************************************************************)
(* apply(node_info, data)                                                  *)
(***************************************************************************)
\* Lines 420-424: the matching pass.  It ends at the first rule: either
\* filter_by_conditions raises, or it returns a bool, which line 423 cannot
\* iterate (TypeError); evaluated counts the rules whose conditions returned.
MatchPass(rules, node_info, data) ==
    LET f == filter_by_conditions(rules[1], node_info, data) IN
    IF f.exc # NoExc
    THEN [exc |-> f.exc, to_apply |-> <<>>, evaluated |-> 0]
    ELSE [exc |-> "TypeError", to_apply |-> <<>>, evaluated |-> 1]

apply(node_info, data) ==
    LET rules == get_all IN
    IF Len(rules) = 0 THEN EngineOutcome(NoExc, None, <<>>, <<>>, 0, <<>>)
    ELSE LET m == MatchPass(rules, node_info, data) IN
         IF m.exc # NoExc THEN EngineOutcome(m.exc, None, <<>>, <<>>, m.evaluated, <<>>)
         ELSE IF Len(m.to_apply) > 0
              \* line 429: a (rule, obj) tuple has no apply_actions
              THEN EngineOutcome("AttributeError", None, <<>>, <<>>, m.evaluated, <<>>)
              ELSE EngineOutcome(NoExc, None, <<>>, <<>>, m.evaluated, <<>>)

(***************************************************************************)
(* The state machine: one action per public call.                          *)
(***************************************************************************)
Call(op, args, exc, ret, checks, invoked, evaluated) ==
    [op |-> op, args |-> args, exc |-> exc, ret |-> ret, checks |-> checks,
     invoked |-> invoked, evaluated |-> evaluated]

\* A caller of a schema function: the function it is in (fn), the statement it
\* is about to execute (pc), the dict it has built (built) and the value its
\* last call returned (ret).
Caller(fn, pc, built, ret) == [fn |-> fn, pc |-> pc, built |-> built, ret |-> ret]
Idle == Caller("none", "idle", Unset, Unset)

Init ==
    /\ rulesTab = <<>>
    /\ condsTab = <<>>
    /\ actsTab = <<>>
    /\ submitted = [u \in Uuids |-> None]
    /\ last = Call("init", None, NoExc, None, <<>>, <<>>, 0)
    /\ _CONDITIONS_SCHEMA = Unset
    /\ _ACTIONS_SCHEMA = Unset
    /\ callers = [c \in Callers |-> Idle]

Store(out) ==
    /\ rulesTab' = out.rules
    /\ condsTab' = out.conds
    /\ actsTab' = out.acts

DoCreate(conditions_json, actions_json, uuid_arg, descr, generated) ==
    LET out == create(conditions_json, actions_json, uuid_arg, descr, generated)
        doc == [conditions |-> conditions_json, actions |-> actions_json,
                description |-> descr]
        args == [conditions |-> conditions_json, actions |-> actions_json,
                 description |-> descr, uuid |-> uuid_arg]
    IN  /\ Store(out)
        /\ submitted' = IF out.exc = NoExc
                        THEN [submitted EXCEPT ![out.ret.uuid] = doc]
                        ELSE submitted
        /\ last' = Call("create", args, out.exc, out.ret, <<>>, <<>>, 0)
        \* line 286 calls conditions_schema(); line 291, reached when the
        \* conditions document validates, calls actions_schema()
        /\ _CONDITIONS_SCHEMA' = conditions_schema
        /\ _ACTIONS_SCHEMA' = IF ConditionsSchemaOK(conditions_json)
                              THEN actions_schema
                              ELSE _ACTIONS_SCHEMA
        /\ UNCHANGED callers

Create ==
    \E r \in 1..Len(RuleInputs) :
        \/ \E uuid \in Uuids :
               DoCreate(RuleInputs[r][1], RuleInputs[r][2], uuid, RuleInputs[r][3],
                        None)
        \/ \E generated \in Uuids \ StoredUuids :
               DoCreate(RuleInputs[r][1], RuleInputs[r][2], None, RuleInputs[r][3],
                        generated)

Get ==
    \E uuid \in Uuids :
        LET out == get(uuid)
        IN  /\ last' = Call("get", [uuid |-> uuid], out.exc, out.ret, <<>>, <<>>, 0)
            /\ UNCHANGED <<rulesTab, condsTab, actsTab, submitted>>
            /\ UNCHANGED schemaVars

GetAll ==
    /\ last' = Call("get_all", None, NoExc, get_all, <<>>, <<>>, 0)
    /\ UNCHANGED <<rulesTab, condsTab, actsTab, submitted>>
    /\ UNCHANGED schemaVars

Delete ==
    \E uuid \in Uuids :
        LET out == delete(uuid)
        IN  /\ Store(out)
            /\ submitted' = IF out.exc = NoExc
                            THEN [submitted EXCEPT ![uuid] = None]
                            ELSE submitted
            /\ last' = Call("delete", [uuid |-> uuid], out.exc, None, <<>>, <<>>, 0)
            /\ UNCHANGED schemaVars

DeleteAll ==
    /\ Store(delete_all)
    /\ submitted' = [u \in Uuids |-> None]
    /\ last' = Call("delete_all", None, NoExc, None, <<>>, <<>>, 0)
    /\ UNCHANGED schemaVars

Apply ==
    \E ctx \in Contexts :
        LET out == apply(ctx.node_info, ctx.data)
        IN  /\ last' = Call("apply", ctx, out.exc, out.ret, out.checks,
                            out.invoked, out.evaluated)
            /\ UNCHANGED <<rulesTab, condsTab, actsTab, submitted>>
            /\ UNCHANGED schemaVars

\* rule.filter_by_conditions(node_info, data) on a rule returned by get
FilterByConditions ==
    \E uuid \in StoredUuids, ctx \in Contexts :
        LET out == filter_by_conditions(get(uuid).ret, ctx.node_info, ctx.data)
        IN  /\ last' = Call("filter_by_conditions",
                            [uuid |-> uuid, node_info |-> ctx.node_info,
                             data |-> ctx.data],
                            out.exc, out.ret, out.checks, out.invoked, out.evaluated)
            /\ UNCHANGED <<rulesTab, condsTab, actsTab, submitted>>
            /\ UNCHANGED schemaVars

\* rule.apply_actions(node_info, data=data), on the rule object the previous
\* call returned (get) or acted on (apply_actions): a caller keeps the object
\* and applies it again.  args.self is the object before the call, args.after
\* the same object after it.
ApplyActions ==
    /\ \/ last.op = "get" /\ last.exc = NoExc
       \/ last.op = "apply_actions"
    /\ \E ctx \in Contexts :
           LET self == IF last.op = "get" THEN last.ret ELSE last.args.after
               out == apply_actions(self, ctx.node_info, ctx.data)
           IN  /\ last' = Call("apply_actions",
                               [self |-> self,
                                after |-> [self EXCEPT !.actions = out.actions],
                                data |-> ctx.data],
                               out.exc, out.ret, out.checks, out.invoked,
                               out.evaluated)
               /\ UNCHANGED <<rulesTab, condsTab, actsTab, submitted>>
               /\ UNCHANGED schemaVars

\* SourceData._parse_uri(uri)
ParseUri ==
    \E u \in 1..Len(UriInputs) :
        LET out == _parse_uri(UriInputs[u])
        IN  /\ last' = Call("_parse_uri", [uri |-> UriInputs[u]], out.exc, out.ret,
                            <<>>, <<>>, 0)
            /\ UNCHANGED <<rulesTab, condsTab, actsTab, submitted>>
            /\ UNCHANGED schemaVars

\* SourceData(node_info, data, uri)
NewSourceData ==
    \E u \in 1..Len(UriInputs), ctx \in Contexts :
        LET out == SourceData(ctx.node_info, ctx.data, UriInputs[u])
        IN  /\ last' = Call("SourceData",
                            [node_info |-> ctx.node_info, data |-> ctx.data,
                             uri |-> UriInputs[u]],
                            out.exc, out.ret, <<>>, <<>>, 0)
            /\ UNCHANGED <<rulesTab, condsTab, actsTab, submitted>>
            /\ UNCHANGED schemaVars

\* The schema global a function tests, stores and returns.
Cache(fn) == IF fn = "conditions_schema" THEN _CONDITIONS_SCHEMA ELSE _ACTIONS_SCHEMA

repoVars == <<rulesTab, condsTab, actsTab, submitted, last>>

\* A caller that is in no call enters conditions_schema() or actions_schema().
SchemaEnter(c) ==
    /\ callers[c].pc \in {"idle", "done"}
    /\ \E fn \in SchemaFunctions :
           callers' = [callers EXCEPT ![c] = Caller(fn, "test", Unset, Unset)]
    /\ UNCHANGED <<repoVars, _CONDITIONS_SCHEMA, _ACTIONS_SCHEMA>>

\* Line 38 / 78: if <global> is None
SchemaTest(c) ==
    /\ callers[c].pc = "test"
    /\ callers' = [callers EXCEPT ![c].pc = TestBranch(Cache(callers[c].fn))]
    /\ UNCHANGED <<repoVars, _CONDITIONS_SCHEMA, _ACTIONS_SCHEMA>>

\* Lines 39-72 / 79-97: the dict is built, not yet stored
SchemaBuild(c) ==
    /\ callers[c].pc = "build"
    /\ callers' = [callers EXCEPT ![c].pc = "store",
                                  ![c].built = <<BuildSchema(callers[c].fn)>>]
    /\ UNCHANGED <<repoVars, _CONDITIONS_SCHEMA, _ACTIONS_SCHEMA>>

\* Line 40 / 80: the assignment to the global
SchemaStore(c) ==
    /\ callers[c].pc = "store"
    /\ IF callers[c].fn = "conditions_schema"
       THEN /\ _CONDITIONS_SCHEMA' = callers[c].built
            /\ UNCHANGED _ACTIONS_SCHEMA
       ELSE /\ _ACTIONS_SCHEMA' = callers[c].built
            /\ UNCHANGED _CONDITIONS_SCHEMA
    /\ callers' = [callers EXCEPT ![c].pc = "return"]
    /\ UNCHANGED repoVars

\* Line 73 / 99: return <global>
SchemaReturn(c) ==
    /\ callers[c].pc = "return"
    /\ callers' = [callers EXCEPT ![c].pc = "done",
                                  ![c].ret = Cache(callers[c].fn)]
    /\ UNCHANGED <<repoVars, _CONDITIONS_SCHEMA, _ACTIONS_SCHEMA>>

\* One statement of one of the concurrent callers.
SchemaStep ==
    \E c \in Callers :
        \/ SchemaEnter(c)
        \/ SchemaTest(c)
        \/ SchemaBuild(c)
        \/ SchemaStore(c)
        \/ SchemaReturn(c)

\* The calls of a sequential caller.  The statements of concurrent callers of
\* the schema functions (SchemaStep) touch no variable these calls read except
\* the two globals, which create sets as they do; they are explored on their
\* own under SpecSchema.
Next ==
    \/ Create
    \/ Get
    \/ GetAll
    \/ Delete
    \/ DeleteAll
    \/ Apply
    \/ FilterByConditions
    \/ ApplyActions
    \/ ParseUri
    \/ NewSourceData

Spec == Init /\ [][Next]_vars

\* The repository operations alone.
NextRepository ==
    \/ Create
    \/ Get
    \/ GetAll
    \/ Delete
    \/ DeleteAll

SpecRepository == Init /\ [][NextRepository]_vars

\* Concurrent first use of the schema functions.
SpecSchema == Init /\ [][SchemaStep]_vars

\* A caller that stores rules, reads them back and runs their actions.
NextActions ==
    \/ Create
    \/ Get
    \/ ApplyActions

SpecActions == Init /\ [][NextActions]_vars

(***************************************************************************)
(* What the claims say a call should do, for stating them.                 *)
(***************************************************************************)
\* The values a field address resolves to: port://address is the address of
\* each port in turn, any other field of the model a key of the data.
ClaimedValues(ctx, field) ==
    IF field = "port://address" THEN ctx.node_info.ports
    ELSE IF field \in DOMAIN ctx.data THEN <<ctx.data[field]>> ELSE <<>>

\* The operator's result on one value, after invert.
ClaimedResult(cond, value) == PluginCheck(cond.op, value, cond.params) # cond.invert

\* The outcome of a condition over a non-empty sequence of values.
ClaimedCollapse(cond, vals) ==
    IF cond.multiple = "all" THEN \A i \in 1..Len(vals) : ClaimedResult(cond, vals[i])
    ELSE IF cond.multiple = "any"
         THEN \E i \in 1..Len(vals) : ClaimedResult(cond, vals[i])
         ELSE ClaimedResult(cond, vals[1])

\* The outcome of a condition in a context, an absent field included.
ClaimedOutcome(cond, ctx) ==
    LET vals == ClaimedValues(ctx, cond.field) IN
    IF vals # <<>> THEN ClaimedCollapse(cond, vals)
    ELSE ALLOW_NONE(cond.op) /\ ClaimedCollapse(cond, <<None>>)

ClaimedMatch(rule, ctx) ==
    \A k \in 1..Len(rule.conditions) : ClaimedOutcome(rule.conditions[k], ctx)

\* The k-th condition is reached: every earlier condition's outcome is true.
ClaimedReached(rule, ctx, k) ==
    \A j \in 1..(k - 1) : ClaimedOutcome(rule.conditions[j], ctx)

PortNames == <<"port1", "port2", "port3", "port4">>
PortScoped(cond) == cond.field = "port://address"

\* The targets of a matched rule: the node, or the ports on which every
\* port-scoped condition of the rule gave a true result.
ClaimedTargets(rule, ctx) ==
    IF \A k \in 1..Len(rule.conditions) : ~PortScoped(rule.conditions[k])
    THEN {"node"}
    ELSE {PortNames[i] : i \in
            {i \in 1..Len(ctx.node_info.ports) :
                \A k \in 1..Len(rule.conditions) :
                    PortScoped(rule.conditions[k]) =>
                        ClaimedResult(rule.conditions[k], ctx.node_info.ports[i])}}

\* Every templated parameter of the rule's actions resolves against the data.
TemplatesResolve(rule, data) ==
    \A i \in 1..Len(rule.actions) :
        FormatParams(rule.actions[i].params,
                     FORMATTED_PARAMS(rule.actions[i].action), 1, data).exc = NoExc

\* invoked holds an invocation of the rule's i-th action
Invoked(invoked, rule, i, data) ==
    \E n \in 1..Len(invoked) :
        /\ invoked[n].action = rule.actions[i].action
        /\ invoked[n].params =
               FormatParams(rule.actions[i].params,
                            FORMATTED_PARAMS(rule.actions[i].action), 1, data).params

\* The rule of the last filter_by_conditions call and its context.
LastRule == get(last.args.uuid).ret
LastCtx == [node_info |-> last.args.node_info, data |-> last.args.data]

(***************************************************************************)
(* C1.  A condition over a non-empty sequence of resolved values has the   *)
(* outcome its multiplicity prescribes over the post-invert results: a     *)
(* call of filter_by_conditions on a rule all of whose conditions resolve  *)
(* to values returns whether every condition's outcome is true.            *)
(***************************************************************************)
C1_MultiplicityOutcome ==
    (/\ last.op = "filter_by_conditions"
     /\ Len(LastRule.conditions) >= 1
     /\ \A k \in 1..Len(LastRule.conditions) :
            ClaimedValues(LastCtx, LastRule.conditions[k].field) # <<>>)
    => /\ last.exc = NoExc
       /\ last.ret = ClaimedMatch(LastRule, LastCtx)

(***************************************************************************)
(* C2.  When the field of a reached condition resolves to no value: with   *)
(* an operator that allows None, check is invoked exactly once for that    *)
(* condition, on None, and a false post-invert result makes the rule not   *)
(* matched; with any other operator the call returns False, raises         *)
(* nothing, and invokes no check of this or of a later condition.          *)
(***************************************************************************)
C2_AbsentField ==
    last.op = "filter_by_conditions" =>
        \A k \in 1..Len(LastRule.conditions) :
            LET cond == LastRule.conditions[k]
                mine == SelectSeq(last.checks, LAMBDA c : c.cond = k)
                later == SelectSeq(last.checks, LAMBDA c : c.cond >= k)
            IN  (/\ ClaimedReached(LastRule, LastCtx, k)
                 /\ ClaimedValues(LastCtx, cond.field) = <<>>)
                => /\ last.exc = NoExc
                   /\ IF ALLOW_NONE(cond.op)
                      THEN /\ Len(mine) = 1
                           /\ mine[1].value = None
                           /\ ~ClaimedResult(cond, None) => last.ret = FALSE
                      ELSE /\ last.ret = FALSE
                           /\ later = <<>>

(***************************************************************************)
(* C3.  On a rule of several conditions filter_by_conditions returns       *)
(* whether every condition's outcome is true, and invokes no check of a    *)
(* condition that follows the first condition whose outcome is false.      *)
(***************************************************************************)
C3_ConditionsAnded ==
    (last.op = "filter_by_conditions" /\ Len(LastRule.conditions) >= 2) =>
        /\ last.exc = NoExc
        /\ last.ret = ClaimedMatch(LastRule, LastCtx)
        /\ \A n \in 1..Len(last.checks) :
               ClaimedReached(LastRule, LastCtx, last.checks[n].cond)

(***************************************************************************)
(* C4.  apply evaluates the conditions of every stored rule in a first     *)
(* pass, and invokes an action operator only once that pass is complete.   *)
(***************************************************************************)
C4_MatchingPassComplete ==
    last.op = "apply" =>
        /\ last.evaluated = Len(rulesTab)
        /\ last.invoked # <<>> => last.evaluated = Len(rulesTab)

(***************************************************************************)
(* C5.  When a matched rule has an action whose template names a key the   *)
(* data lacks, apply still invokes the actions of every later matched      *)
(* rule.                                                                   *)
(***************************************************************************)
C5_LaterRulesStillApplied ==
    last.op = "apply" =>
        \A i, j \in 1..Len(get_all) :
            (/\ i < j
             /\ ClaimedMatch(get_all[i], last.args)
             /\ ~TemplatesResolve(get_all[i], last.args.data)
             /\ ClaimedMatch(get_all[j], last.args))
            => Invoked(last.invoked, get_all[j], 1, last.args.data)

(***************************************************************************)
(* C6.  For a matched rule each action is invoked once per target of the   *)
(* rule's target set: the node when no condition is port-scoped, else the  *)
(* ports on which every port-scoped condition gave a true result.          *)
(***************************************************************************)
C6_TargetSet ==
    (/\ last.op = "apply"
     /\ Len(get_all) = 1
     /\ ClaimedMatch(get_all[1], last.args))
    => LET act == get_all[1].actions[1]
           mine == SelectSeq(last.invoked, LAMBDA v : v.action = act.action)
       IN  /\ {mine[n].target : n \in 1..Len(mine)}
                  = ClaimedTargets(get_all[1], last.args)
           /\ Len(mine) = Cardinality(ClaimedTargets(get_all[1], last.args))

(***************************************************************************)
(* C7.  A stored rule without conditions matches every context: apply      *)
(* returns without raising, having invoked each of the rule's actions      *)
(* exactly once, against the node.                                         *)
(***************************************************************************)
C7_UnconditionalRule ==
    (/\ last.op = "apply"
     /\ Len(get_all) = 1
     /\ get_all[1].conditions = <<>>
     /\ TemplatesResolve(get_all[1], last.args.data))
    => /\ last.exc = NoExc
       /\ Len(last.invoked) = Len(get_all[1].actions)
       /\ \A i \in 1..Len(last.invoked) :
              /\ last.invoked[i].action = get_all[1].actions[i].action
              /\ last.invoked[i].target = "node"

(***************************************************************************)
(* C8.  apply invokes an action operator only for a stored rule whose      *)
(* conditions all hold; when no stored rule matches (or none is stored) it *)
(* invokes none and returns normally.                                      *)
(***************************************************************************)
C8_OnlyMatchedRulesAct ==
    last.op = "apply" =>
        /\ \A n \in 1..Len(last.invoked) :
               \E i \in 1..Len(get_all) :
                   /\ ClaimedMatch(get_all[i], last.args)
                   /\ \E a \in 1..Len(get_all[i].actions) :
                          get_all[i].actions[a].action = last.invoked[n].action
        /\ (\A i \in 1..Len(get_all) : ~ClaimedMatch(get_all[i], last.args))
               => /\ last.invoked = <<>>
                  /\ last.exc = NoExc

\* A submission that validation rejects: a document violates its schema, or an
\* operator's validate rejects the parameters of a condition or of an action.
InvalidSubmission(args) ==
    ~(/\ ConditionsSchemaOK(args.conditions)
      /\ ActionsSchemaOK(args.actions)
      /\ \A i \in 1..Len(args.conditions) :
             PluginValidateOK(CondRequiredParams(args.conditions[i]["op"]),
                              Without(args.conditions[i],
                                      {"op", "field", "multiple", "invert"}))
      /\ \A i \in 1..Len(args.actions) :
             PluginValidateOK(ActRequiredParams(args.actions[i]["action"]),
                              Without(args.actions[i], {"action"})))

(***************************************************************************)
(* C9.  A create call whose submission validation rejects raises           *)
(* utils.Error and leaves the three tables exactly as they were.           *)
(***************************************************************************)
C9_RejectedCreatePersistsNothing ==
    [][(last'.op = "create" /\ InvalidSubmission(last'.args))
           => /\ last'.exc = ErrorDefault
              /\ UNCHANGED <<rulesTab, condsTab, actsTab>>]_vars

\* A create was rejected for its second action, after both conditions and the
\* first action had validated, with a rule already stored.
C9_Witness ==
    /\ last.op = "create"
    /\ last.exc = ErrorDefault
    /\ last.args.conditions = <<cEq, cEmptyInv>>
    /\ last.args.actions = <<aSetLit, aNoValue>>
    /\ Len(rulesTab) = 1

(***************************************************************************)
(* C10.  get(id) of a stored rule returns the description, the conditions  *)
(* and the actions of the create call that stored it, in the submitted     *)
(* order: op, field, multiple (default any), invert (default False) and    *)
(* the other keys of each condition; action and the other keys of each     *)
(* action.                                                                 *)
(***************************************************************************)
C10_RoundTrip ==
    (last.op = "get" /\ last.exc = NoExc) =>
        LET sub == submitted[last.args.uuid]
            got == as_dict(last.ret)
        IN  /\ got.uuid = last.args.uuid
            /\ got.description = sub.description
            /\ Len(got.conditions) = Len(sub.conditions)
            /\ \A i \in 1..Len(sub.conditions) :
                   /\ got.conditions[i].op = sub.conditions[i]["op"]
                   /\ got.conditions[i].field = sub.conditions[i]["field"]
                   /\ got.conditions[i].multiple
                          = DictGet(sub.conditions[i], "multiple", "any")
                   /\ got.conditions[i].invert
                          = DictGet(sub.conditions[i], "invert", FALSE)
                   /\ got.conditions[i].params
                          = Without(sub.conditions[i],
                                    {"op", "field", "multiple", "invert"})
            /\ Len(got.actions) = Len(sub.actions)
            /\ \A i \in 1..Len(sub.actions) :
                   /\ got.actions[i].action = sub.actions[i]["action"]
                   /\ got.actions[i].params = Without(sub.actions[i], {"action"})

\* get returned the second of two stored rules, one with two conditions and
\* three actions.
C10_Witness ==
    /\ last.op = "get"
    /\ last.exc = NoExc
    /\ Len(rulesTab) = 2
    /\ last.args.uuid = rulesTab[2].uuid
    /\ Len(last.ret.conditions) = 2
    /\ Len(last.ret.actions) = 3

(***************************************************************************)
(* C11: rule identifiers stay unique; a create call that supplies an       *)
(* identifier already stored fails, with utils.Error code 409 when its     *)
(* documents are valid, and leaves the stored rule, its conditions and     *)
(* actions, and every other rule as they were.                             *)
(***************************************************************************)
UniqueUuids ==
    \A i, j \in 1..Len(rulesTab) : rulesTab[i].uuid = rulesTab[j].uuid => i = j

DuplicateCreate ==
    /\ last'.op = "create"
    /\ last'.args.uuid \in StoredUuids

RowsOf(uuid) ==
    {i \in 1..Len(condsTab) : condsTab[i].rule = uuid}
        \cup {i \in 1..Len(actsTab) : actsTab[i].rule = uuid}

C12_DeleteExactlyOne ==
    [][\A uuid \in Uuids :
          last'.op = "delete" /\ last'.args.uuid = uuid =>
              IF uuid \notin StoredUuids
              THEN /\ last'.exc = Error404
                   /\ UNCHANGED <<rulesTab, condsTab, actsTab, submitted>>
              ELSE /\ last'.exc = NoExc
                   /\ StoredUuids' = StoredUuids \ {uuid}
                   /\ RowsOf(uuid)' = {}
                   /\ get_all' = SelectSeq(get_all,
                                           LAMBDA rule : rule.uuid # uuid)]_vars

C12_Witness ==
    /\ last.op = "delete"
    /\ last.exc = NoExc
    /\ Len(rulesTab) = 1
    /\ Len(actsTab) > 0
    /\ Len(condsTab) > 0

(***************************************************************************)
(* C13: a field address is split at the first "://": the part before it is *)
(* the scheme and the part after it the path; without a separator the      *)
(* scheme is "data" and the path the whole address; scheme data selects    *)
(* the introspection data, node the serialized node, port the list of      *)
(* serialized ports.                                                       *)
(***************************************************************************)
ClaimedSplit(uri) ==
    LET index == Index(uri, _URI_SEPARATOR) IN
    IF index = 0 THEN <<_DEFAULT_SCHEME, uri>>
    ELSE <<SubSeq(uri, 1, index - 1),
           SubSeq(uri, index + Len(_URI_SEPARATOR), Len(uri))>>

ClaimedSource(scheme, node_info, data) ==
    IF scheme = <<"d", "a", "t", "a">> THEN <<data>>
    ELSE IF scheme = <<"n", "o", "d", "e">> THEN <<NodeDict(node_info)>>
    ELSE PortDicts(node_info)

C13_SchemeSelectsSource ==
    /\ last.op = "_parse_uri" =>
           /\ last.exc = NoExc
           /\ last.ret = ClaimedSplit(last.args.uri)
    /\ /\ last.op = "SourceData"
       /\ ClaimedSplit(last.args.uri)[1] \in {<<"d", "a", "t", "a">>,
                                               <<"n", "o", "d", "e">>,
                                               <<"p", "o", "r", "t">>}
       /\ JsonPathParses(ClaimedSplit(last.args.uri)[2])
       => /\ last.exc = NoExc
          /\ last.ret._data = ClaimedSource(ClaimedSplit(last.args.uri)[1],
                                            last.args.node_info, last.args.data)
          /\ last.ret.path = ClaimedSplit(last.args.uri)[2]

(***************************************************************************)
(* C14: a rule whose condition names a field with an unknown scheme (or an *)
(* unparsable path) only fails its own match: apply still evaluates the    *)
(* later rules and invokes the actions of the other rules that match.      *)
(***************************************************************************)
BadReference(rule) ==
    \E k \in 1..Len(rule.conditions) : rule.conditions[k].field = "x://a"

C14_BadReferenceAbortsOneRule ==
    last.op = "apply" =>
        \A i, j \in 1..Len(get_all) :
            (/\ i # j
             /\ BadReference(get_all[i])
             /\ ClaimedMatch(get_all[j], last.args)
             /\ TemplatesResolve(get_all[j], last.args.data))
            => /\ last.evaluated = Len(get_all)
               /\ Invoked(last.invoked, get_all[j], 1, last.args.data)

(***************************************************************************)
(* C15: the action invocations of one apply call are ordered: matched      *)
(* rules in the order get_all lists them, the actions of one rule in their *)
(* declaration order, each matched rule's actions once per target.         *)
(***************************************************************************)
\* The invocations of a rule that acts on the node.
ClaimedInvocations(rule, data) ==
    [i \in 1..Len(rule.actions) |->
        [action |-> rule.actions[i].action, target |-> "node",
         params |-> FormatParams(rule.actions[i].params,
                                 FORMATTED_PARAMS(rule.actions[i].action), 1,
                                 data).params]]

C15_InvocationOrder ==
    (/\ last.op = "apply"
     /\ Len(get_all) = 2
     /\ \A i \in 1..2 :
            /\ ClaimedMatch(get_all[i], last.args)
            /\ ClaimedTargets(get_all[i], last.args) = {"node"}
            /\ TemplatesResolve(get_all[i], last.args.data))
    => last.invoked = ClaimedInvocations(get_all[1], last.args.data)
                          \o ClaimedInvocations(get_all[2], last.args.data)

(***************************************************************************)
(* C16: over the resolved values of one condition, in order, check is      *)
(* invoked on a prefix only: with first on the first value; with all up to *)
(* and including the first value whose post-invert result is false; with   *)
(* any up to and including the first whose post-invert result is true.     *)
(***************************************************************************)
\* The claimed evaluation stops after the n-th value.
ClaimedStop(cond, vals, n) ==
    \/ n = Len(vals)
    \/ cond.multiple = "first"
    \/ cond.multiple = "all" /\ ~ClaimedResult(cond, vals[n])
    \/ cond.multiple = "any" /\ ClaimedResult(cond, vals[n])

ClaimedPrefix(cond, vals) ==
    LET n == CHOOSE m \in 1..Len(vals) :
                 /\ ClaimedStop(cond, vals, m)
                 /\ \A l \in 1..(m - 1) : ~ClaimedStop(cond, vals, l)
    IN  SubSeq(vals, 1, n)

C16_ChecksOnPrefix ==
    (/\ last.op = "filter_by_conditions"
     /\ Len(LastRule.conditions) >= 1
     /\ ClaimedValues(LastCtx, LastRule.conditions[1].field) # <<>>)
    => LET cond == LastRule.conditions[1]
           mine == SelectSeq(last.checks, LAMBDA c : c.cond = 1)
       IN  [n \in 1..Len(mine) |-> mine[n].value]
               = ClaimedPrefix(cond, ClaimedValues(LastCtx, cond.field))

(***************************************************************************)
(* C17: apply_actions leaves the parameters of the rule's actions as they  *)
(* were, so that a second call on the same rule object substitutes the     *)
(* values of its own data into the stored templates.                       *)
(***************************************************************************)
C17_ParamsNotOverwritten ==
    last.op = "apply_actions" =>
        /\ last.args.after.actions = last.args.self.actions
        /\ last.exc = NoExc =>
               last.invoked =
                   ClaimedInvocations(get(last.args.self.uuid).ret, last.args.data)

(***************************************************************************)
(* C18: when apply_actions fails, it fails with utils.Error at the first   *)
(* action k whose template does not resolve: actions 1..k-1 have each been *)
(* invoked once, in order, and action k and the later ones have not.       *)
(***************************************************************************)
FailsSubstitution(act, data) ==
    FormatParams(act.params, FORMATTED_PARAMS(act.action), 1, data).exc # NoExc

C18_FailureStopsDispatch ==
    (last.op = "apply_actions" /\ last.exc # NoExc) =>
        LET self == last.args.self
            data == last.args.data
        IN  /\ last.exc = ErrorDefault
            /\ \E k \in 1..Len(self.actions) :
                   /\ FailsSubstitution(self.actions[k], data)
                   /\ \A j \in 1..(k - 1) : ~FailsSubstitution(self.actions[j], data)
                   /\ last.invoked =
                          SubSeq(ClaimedInvocations(self, data), 1, k - 1)

C18_Witness ==
    /\ last.op = "apply_actions"
    /\ last.exc = ErrorDefault
    /\ Len(last.args.self.actions) = 3
    /\ Len(last.invoked) = 1

(***************************************************************************)
(* C19: after any sequence of create, delete and delete_all calls every    *)
(* stored condition and action belongs to a stored rule, every stored rule *)
(* has all the conditions and actions it was created with, and after       *)
(* delete_all the three tables are empty and get_all returns no rule.      *)
(***************************************************************************)
C19_RowsBelongToRules ==
    /\ \A i \in 1..Len(condsTab) : condsTab[i].rule \in StoredUuids
    /\ \A i \in 1..Len(actsTab) : actsTab[i].rule \in StoredUuids
    /\ \A u \in StoredUuids :
           /\ Len(RuleConditions(u)) = Len(submitted[u].conditions)
           /\ Len(RuleActions(u)) = Len(submitted[u].actions)
    /\ last.op = "delete_all" =>
           /\ rulesTab = <<>>
           /\ condsTab = <<>>
           /\ actsTab = <<>>
           /\ get_all = <<>>

C19_Witness ==
    /\ last.op = "delete"
    /\ last.exc = NoExc
    /\ Len(rulesTab) = 1
    /\ Len(condsTab) = 2
    /\ Len(actsTab) = 3

(***************************************************************************)
(* C20: under any interleaving of concurrent conditions_schema() and       *)
(* actions_schema() calls, every call returns a fully built schema whose   *)
(* enum of operator names is the registry's names, never None, and a       *)
(* schema global that is set keeps its content.                            *)
(***************************************************************************)
FullyBuilt(fn, value) ==
    /\ value # Unset
    /\ DOMAIN value[1] = {"title", "type", "minItems", "items"}
    /\ DOMAIN value[1].items =
           {"type", "required", "properties", "additionalProperties"}
    /\ IF fn = "conditions_schema"
       THEN /\ DOMAIN value[1].items.properties =
                   {"op", "field", "multiple", "invert"}
            /\ value[1].items.properties.op.enum = condition_plugins
       ELSE /\ DOMAIN value[1].items.properties = {"action"}
            /\ value[1].items.properties.action.enum = action_plugins

C20_SchemaCachesSafe ==
    /\ [](\A c \in Callers :
              callers[c].pc = "done" => FullyBuilt(callers[c].fn, callers[c].ret))
    /\ [][/\ _CONDITIONS_SCHEMA # Unset => _CONDITIONS_SCHEMA' = _CONDITIONS_SCHEMA
          /\ _ACTIONS_SCHEMA # Unset => _ACTIONS_SCHEMA' = _ACTIONS_SCHEMA]_vars

\* A caller has returned while another, which also found the global unset,
\* is about to store its own dict.
C20_Witness ==
    \E c, d \in Callers :
        /\ c # d
        /\ callers[c].pc = "done"
        /\ callers[d].pc = "store"
        /\ callers[d].fn = callers[c].fn

====
